---------------------------- MODULE Spec2Model ----------------------------
(***************************************************************************)
(* Model of src/lib/algorithm-engine.js: the rule table PATTERNS, the      *)
(* scoring engine analyzePost (its four passes, the aggregation and the    *)
(* recommendation step) and the generators generateOptimizedVariants and   *)
(* generatePostingStrategy.                                                *)
(*                                                                         *)
(* A text is a sequence of UTF-16 code units, each written as a one        *)
(* character string ("a", "?", "\n"); a code unit outside ASCII is written *)
(* by its name ("U+D83D").  The length of the sequence is the JavaScript   *)
(* .length of the string.                                                  *)
(***************************************************************************)
EXTENDS Integers, Sequences, FiniteSets, TLC

VARIABLES
    text,       \* analyzePost's argument text
    options,    \* analyzePost's argument options (an object: a function from keys)
    results,    \* analyzePost's local object results
    pc,         \* the statement of analyzePost that runs next
    lastIndex,  \* the lastIndex property of every RegExp object held by PATTERNS
    out,        \* the last call of a generator: its arguments and what it returned
    memo,       \* the arguments and the result of the first analyzePost call
    rel         \* how the arguments of the running call were derived from memo's

vars == <<text, options, results, pc, lastIndex, out, memo, rel>>

-----------------------------------------------------------------------------
(* Characters and the character classes of the regular expressions.        *)

UpperChars == {"A","B","C","D","E","F","G","H","I","J","K","L","M",
               "N","O","P","Q","R","S","T","U","V","W","X","Y","Z"}

LowerChars == {"a","b","c","d","e","f","g","h","i","j","k","l","m",
               "n","o","p","q","r","s","t","u","v","w","x","y","z"}

DigitChars == {"0","1","2","3","4","5","6","7","8","9"}

\* \w
WordChars == UpperChars \cup LowerChars \cup DigitChars \cup {"_"}

\* \s (and what String.prototype.trim strips)
SpaceChars == {" ", "\n", "\t"}

\* String.prototype.toLowerCase on one code unit; also the case folding of
\* the i flag (both sides of a comparison are folded)
ToLowerTable ==
    ("A" :> "a") @@ ("B" :> "b") @@ ("C" :> "c") @@ ("D" :> "d") @@
    ("E" :> "e") @@ ("F" :> "f") @@ ("G" :> "g") @@ ("H" :> "h") @@
    ("I" :> "i") @@ ("J" :> "j") @@ ("K" :> "k") @@ ("L" :> "l") @@
    ("M" :> "m") @@ ("N" :> "n") @@ ("O" :> "o") @@ ("P" :> "p") @@
    ("Q" :> "q") @@ ("R" :> "r") @@ ("S" :> "s") @@ ("T" :> "t") @@
    ("U" :> "u") @@ ("V" :> "v") @@ ("W" :> "w") @@ ("X" :> "x") @@
    ("Y" :> "y") @@ ("Z" :> "z")

ToLower(c) == IF c \in UpperChars THEN ToLowerTable[c] ELSE c

toLowerCase(s) == [i \in 1..Len(s) |-> ToLower(s[i])]

\* The surrogate code units of the model's alphabet and their values
SurrogateValue ==
    ("U+D83D" :> 55357) @@ ("U+DD25" :> 56613) @@ ("U+DE80" :> 56960)

IsHighSurrogate(c) ==
    c \in DOMAIN SurrogateValue /\ SurrogateValue[c] \in 55296..56319

IsLowSurrogate(c) ==
    c \in DOMAIN SurrogateValue /\ SurrogateValue[c] \in 56320..57343

\* The code point a surrogate pair encodes
CodePoint(hi, lo) ==
    (SurrogateValue[hi] - 55296) * 1024 + (SurrogateValue[lo] - 56320) + 65536

Min(a, b) == IF a < b THEN a ELSE b

Max(a, b) == IF a > b THEN a ELSE b

\* The concatenation of a sequence of strings
RECURSIVE Concat(_)
Concat(ss) == IF ss = << >> THEN << >> ELSE Head(ss) \o Concat(Tail(ss))

\* The sum of a sequence of integers
RECURSIVE SumSeq(_)
SumSeq(s) == IF s = << >> THEN 0 ELSE Head(s) + SumSeq(Tail(s))

\* Template literal `${n}` of an integer in -99..99
NumberToString(n) ==
    LET a == IF n < 0 THEN 0 - n ELSE n
        digit(d) == <<"0","1","2","3","4","5","6","7","8","9">>[d + 1]
        body == IF a < 10 THEN <<digit(a)>> ELSE <<digit(a \div 10), digit(a % 10)>>
    IN  IF n < 0 THEN <<"-">> \o body ELSE body

-----------------------------------------------------------------------------
(* Regular expressions.  A pattern is a record: kind "chars" matches one   *)
(* code unit of a set; kind "words" is \b(alt|alt|...)\b; kind "prefix" is *)
(* ^(alt|alt|...); kind "codepoints" is a code point range under the u     *)
(* flag.  flags is the set of flags of the literal.                        *)

IsWordAt(t, i) == i \in 1..Len(t) /\ t[i] \in WordChars

\* \b between the code units i-1 and i (1-based; i = Len(t)+1 is the end)
WordBoundary(t, i) == IsWordAt(t, i - 1) # IsWordAt(t, i)

\* The literal w occurs in t at i (folding case when ci)
LiteralAt(t, i, w, ci) ==
    /\ i + Len(w) - 1 <= Len(t)
    /\ \A k \in 1..Len(w) :
          IF ci THEN ToLower(t[i + k - 1]) = ToLower(w[k]) ELSE t[i + k - 1] = w[k]

\* The length of the match of p that starts at code unit i of t, 0 if none.
\* An alternation takes its first alternative that lets the whole pattern match.
MatchLenAt(p, t, i) ==
    LET ci == "i" \in p.flags IN
    CASE p.kind = "chars" ->
            IF t[i] \in p.chars THEN 1 ELSE 0
      [] p.kind = "words" ->
            IF ~ WordBoundary(t, i) THEN 0
            ELSE LET ok == {k \in 1..Len(p.alts) :
                              /\ LiteralAt(t, i, p.alts[k], ci)
                              /\ WordBoundary(t, i + Len(p.alts[k]))}
                 IN  IF ok = {} THEN 0
                     ELSE Len(p.alts[CHOOSE k \in ok : \A j \in ok : k <= j])
      [] p.kind = "prefix" ->
            IF i # 1 THEN 0
            ELSE LET ok == {k \in 1..Len(p.alts) : LiteralAt(t, 1, p.alts[k], ci)}
                 IN  IF ok = {} THEN 0
                     ELSE Len(p.alts[CHOOSE k \in ok : \A j \in ok : k <= j])
      [] p.kind = "codepoints" ->
            IF /\ i + 1 <= Len(t)
               /\ IsHighSurrogate(t[i])
               /\ IsLowSurrogate(t[i + 1])
               /\ CodePoint(t[i], t[i + 1]) \in p.lo..p.hi
            THEN 2 ELSE 0

\* Whether p matches somewhere in t at or after code unit from (1-based)
MatchesFrom(p, t, from) == \E i \in from..Len(t) : MatchLenAt(p, t, i) > 0

\* The first code unit at or after from at which p matches (there is one)
FirstMatchFrom(p, t, from) ==
    CHOOSE i \in from..Len(t) :
        /\ MatchLenAt(p, t, i) > 0
        /\ \A j \in from..(i - 1) : MatchLenAt(p, t, j) = 0

\* The result of a successful exec under the g flag: lastIndex is the end of
\* the match that starts at s
FoundAt(p, t, s) == [found |-> TRUE, lastIndex |-> s - 1 + MatchLenAt(p, t, s)]

\* RegExp.prototype.test: RegExpBuiltinExec reads lastIndex only under the g
\* (or y) flag, and only then writes it: the end of the match, or 0 on failure.
RegExpTest(p, t, li) ==
    IF "g" \in p.flags \/ "y" \in p.flags
    THEN IF li <= Len(t) /\ MatchesFrom(p, t, li + 1)
         THEN FoundAt(p, t, FirstMatchFrom(p, t, li + 1))
         ELSE [found |-> FALSE, lastIndex |-> 0]
    ELSE [found |-> MatchesFrom(p, t, 1), lastIndex |-> li]

\* String.prototype.includes of one character
includes(t, c) == \E i \in 1..Len(t) : t[i] = c

\* String.prototype.trim
trim(t) ==
    LET n == Len(t)
        blank == \A i \in 1..n : t[i] \in SpaceChars
        a == CHOOSE i \in 1..n :
               t[i] \notin SpaceChars /\ \A j \in 1..(i - 1) : t[j] \in SpaceChars
        b == CHOOSE i \in 1..n :
               t[i] \notin SpaceChars /\ \A j \in (i + 1)..n : t[j] \in SpaceChars
    IN  IF blank THEN << >> ELSE SubSeq(t, a, b)

\* String.prototype.split on a separator /[seps]+/: the pieces between the
\* maximal runs of separator characters.  A text that starts (ends) with a
\* separator gives an empty first (last) piece; the empty text gives one empty
\* piece.
split(t, seps) ==
    LET n == Len(t)
        starts == {i \in 1..n : t[i] \notin seps /\ (i = 1 \/ t[i - 1] \in seps)}
        ends   == {i \in 1..n : t[i] \notin seps /\ (i = n \/ t[i + 1] \in seps)}
        nth(S, k) == CHOOSE i \in S : Cardinality({j \in S : j < i}) = k - 1
        pieces == [k \in 1..Cardinality(starts) |-> SubSeq(t, nth(starts, k), nth(ends, k))]
        empty == << << >> >>
    IN  IF n = 0 THEN empty
        ELSE (IF t[1] \in seps THEN empty ELSE << >>)
             \o pieces
             \o (IF t[n] \in seps THEN empty ELSE << >>)

-----------------------------------------------------------------------------
(* PATTERNS: the rule table.  Each rule keeps the pattern, weight, signal, *)
(* risk and reason of its line of the source.                              *)

\* Faulty variant of replyBoosters: the question-mark rule written /\?/g, a
\* RegExp that keeps its lastIndex from one test to the next
replyBoostersGlobal == <<
    [pattern |-> [kind |-> "chars", flags |-> {"g"}, chars |-> {"?"}],
     weight |-> 12, reason |-> "Questions trigger reply behavior"],
    [pattern |-> [kind |-> "words", flags |-> {"i"}, alts |->
        <<<<"w","h","a","t"," ","d","o"," ","y","o","u"," ","t","h","i","n","k">>,
          <<"t","h","o","u","g","h","t","s","?">>,
          <<"a","g","r","e","e","?">>,
          <<"d","i","s","a","g","r","e","e","?">>>>],
     weight |-> 8, reason |-> "Direct conversation invitations"],
    [pattern |-> [kind |-> "words", flags |-> {"i"}, alts |->
        <<<<"h","o","t"," ","t","a","k","e">>,
          <<"u","n","p","o","p","u","l","a","r"," ","o","p","i","n","i","o","n">>>>],
     weight |-> 6, reason |-> "Debate-starting language"] >>

\* Patterns that boost P(reply)
replyBoosters == <<
    [pattern |-> [kind |-> "chars", flags |-> {}, chars |-> {"?"}],
     weight |-> 12, reason |-> "Questions trigger reply behavior"],
    [pattern |-> [kind |-> "words", flags |-> {"i"}, alts |->
        <<<<"w","h","a","t"," ","d","o"," ","y","o","u"," ","t","h","i","n","k">>,
          <<"t","h","o","u","g","h","t","s","?">>,
          <<"a","g","r","e","e","?">>,
          <<"d","i","s","a","g","r","e","e","?">>>>],
     weight |-> 8, reason |-> "Direct conversation invitations"],
    [pattern |-> [kind |-> "words", flags |-> {"i"}, alts |->
        <<<<"h","o","t"," ","t","a","k","e">>,
          <<"u","n","p","o","p","u","l","a","r"," ","o","p","i","n","i","o","n">>>>],
     weight |-> 6, reason |-> "Debate-starting language"] >>

\* Patterns that boost P(click) / P(profile_click)
clickBoosters == <<
    [pattern |-> [kind |-> "words", flags |-> {"i"}, alts |->
        <<<<"c","h","e","c","k"," ","o","u","t">>,
          <<"t","r","y">>,
          <<"j","o","i","n">>,
          <<"s","e","e">>,
          <<"d","i","s","c","o","v","e","r">>,
          <<"e","x","p","l","o","r","e">>,
          <<"g","r","a","b">>,
          <<"g","e","t">>,
          <<"c","l","a","i","m">>,
          <<"l","e","a","r","n"," ","m","o","r","e">>>>],
     weight |-> 8, reason |-> "Call-to-action verbs"],
    [pattern |-> [kind |-> "words", flags |-> {"i"}, alts |->
        <<<<"l","i","n","k"," ","i","n"," ","b","i","o">>,
          <<"l","i","n","k"," ","b","e","l","o","w">>>>],
     weight |-> 5, reason |-> "Link reference"] >>

\* Patterns that boost P(favorite)
favoriteBoosters == <<
    [pattern |-> [kind |-> "words", flags |-> {"i"}, alts |->
        <<<<"e","x","c","i","t","e","d">>,
          <<"h","u","g","e">>,
          <<"i","n","c","r","e","d","i","b","l","e">>,
          <<"a","m","a","z","i","n","g">>,
          <<"f","i","n","a","l","l","y">>,
          <<"l","o","v","e">>>>],
     weight |-> 7, reason |-> "Emotional resonance"],
    [pattern |-> [kind |-> "codepoints", flags |-> {"u"}, lo |-> 127744, hi |-> 129535],
     weight |-> 4, reason |-> "Emoji engagement"] >>

\* Patterns that boost P(repost) / P(share)
shareBoosters == <<
    [pattern |-> [kind |-> "words", flags |-> {"i"}, alts |->
        <<<<"t","h","r","e","a","d">>,
          <<"b","r","e","a","k","d","o","w","n">>,
          <<"g","u","i","d","e">>,
          <<"t","i","p","s">>,
          <<"h","o","w"," ","t","o">>>>],
     weight |-> 8, reason |-> "Shareable educational content"],
    [pattern |-> [kind |-> "words", flags |-> {"i"}, alts |->
        <<<<"a","n","n","o","u","n","c","e","m","e","n","t">>,
          <<"i","n","t","r","o","d","u","c","i","n","g">>,
          <<"l","a","u","n","c","h","i","n","g">>,
          <<"r","e","l","e","a","s","i","n","g">>>>],
     weight |-> 6, reason |-> "News-worthy content"] >>

\* Patterns that boost P(follow_author)
followBoosters == <<
    [pattern |-> [kind |-> "words", flags |-> {"i"}, alts |->
        <<<<"w","e">>,
          <<"o","u","r">>,
          <<"c","o","m","m","u","n","i","t","y">>,
          <<"f","a","m">>,
          <<"f","r","e","n","s">>>>],
     weight |-> 6, reason |-> "Community language"],
    [pattern |-> [kind |-> "words", flags |-> {"i"}, alts |-> << <<"g","m">> >>],
     weight |-> 4, reason |-> "GM culture participation"],
    [pattern |-> [kind |-> "words", flags |-> {"i"}, alts |->
        <<<<"b","u","i","l","d","i","n","g">>,
          <<"s","h","i","p","p","i","n","g">>,
          <<"w","o","r","k","i","n","g"," ","o","n">>>>],
     weight |-> 5, reason |-> "Builder credibility"] >>

\* Patterns that trigger negative signals
negativeTriggers == <<
    [pattern |-> [kind |-> "words", flags |-> {"i"}, alts |->
        <<<<"b","u","y"," ","n","o","w">>,
          <<"l","i","m","i","t","e","d"," ","t","i","m","e">>,
          <<"a","c","t"," ","n","o","w">>,
          <<"d","o","n","t"," ","m","i","s","s">>>>],
     weight |-> -15, signal |-> "P(not_interested)", reason |-> "Hard sell language"],
    [pattern |-> [kind |-> "words", flags |-> {"i"}, alts |->
        <<<<"1","0","0","x">>,
          <<"g","u","a","r","a","n","t","e","e","d">>,
          <<"f","r","e","e"," ","m","o","n","e","y">>,
          <<"g","e","t"," ","r","i","c","h">>>>],
     weight |-> -20, signal |-> "P(report)", reason |-> "Scam-associated language"],
    [pattern |-> [kind |-> "words", flags |-> {"i"}, alts |->
        <<<<"l","i","k","e"," ","i","f">>,
          <<"r","t"," ","i","f">>,
          <<"r","e","t","w","e","e","t"," ","t","o">>,
          <<"f","o","l","l","o","w"," ","f","o","r">>,
          <<"d","r","o","p"," ","a">>>>],
     weight |-> -12, signal |-> "P(not_interested)", reason |-> "Engagement bait"] >>

\* Patterns that risk MutedKeywordFilter
mutedRiskPatterns == <<
    [pattern |-> [kind |-> "words", flags |-> {"i"}, alts |->
        <<<<"a","i","r","d","r","o","p">>,
          <<"w","h","i","t","e","l","i","s","t">>,
          <<"p","r","e","s","a","l","e">>>>],
     risk |-> "high", reason |-> "Commonly muted crypto terms"],
    [pattern |-> [kind |-> "words", flags |-> {"i"}, alts |->
        <<<<"m","i","n","t"," ","p","r","i","c","e">>,
          <<"f","l","o","o","r"," ","p","r","i","c","e">>,
          <<"p","a","p","e","r"," ","h","a","n","d","s">>,
          <<"d","i","a","m","o","n","d"," ","h","a","n","d","s">>>>],
     risk |-> "medium", reason |-> "NFT jargon"] >>

\* analyzeContentQuality's three regular expressions, created at each call
informationalPattern ==
    [kind |-> "words", flags |-> {"i"}, alts |->
        <<<<"n","e","w">>,
          <<"u","p","d","a","t","e">>,
          <<"l","a","u","n","c","h">>,
          <<"f","e","a","t","u","r","e">>,
          <<"a","n","n","o","u","n","c","i","n","g">>,
          <<"i","n","t","r","o","d","u","c","i","n","g">>>>]

digitsPattern == [kind |-> "chars", flags |-> {}, chars |-> DigitChars]

hookPattern ==
    [kind |-> "prefix", flags |-> {"i"}, alts |->
        <<<<"N","E","W">>,
          <<"B","R","E","A","K","I","N","G">>,
          <<"H","U","G","E">>,
          <<"F","I","N","A","L","L","Y">>,
          <<"J","U","S","T">>,
          <<"I","N","T","R","O","D","U","C","I","N","G">>>>]

-----------------------------------------------------------------------------
(* Spam indicators: predicates of the whole text.                          *)

\* (text.match(/#\w+/g) || []).length: a match starts at every "#" that a word
\* character follows, and \w+ never runs over the next "#"
HashtagCount(t) == Cardinality({i \in 1..Len(t) : t[i] = "#" /\ IsWordAt(t, i + 1)})

\* (text.match(/[A-Z]/g) || []).length
CapsCount(t) == Cardinality({i \in 1..Len(t) : t[i] \in UpperChars})

\* spamIndicators[0].check
ExcessiveHashtags(t) == HashtagCount(t) > 3

\* spamIndicators[1].check: caps / Math.max(length, 1) > 0.5
ExcessiveCaps(t) == 2 * CapsCount(t) > Max(Len(t), 1)

\* spamIndicators[2].check.  freq is a plain object: the key "constructor" reads
\* the inherited Object function, so its count becomes a string and Math.max NaN
\* (NaN > 3 is false); an assignment to "__proto__" of a string is ignored, so
\* that word is never counted.
WordRepetition(t) ==
    LET words == split(t, SpaceChars)
        lower == [i \in 1..Len(words) |-> toLowerCase(words[i])]
        keys  == {lower[i] : i \in 1..Len(words)} \ {<<"_","_","p","r","o","t","o","_","_">>}
        freq  == [w \in keys |-> Cardinality({i \in 1..Len(words) : lower[i] = w})]
    IN  /\ <<"c","o","n","s","t","r","u","c","t","o","r">> \notin keys
        /\ \E w \in keys : freq[w] > 3
        /\ Len(words) > 10

spamIndicators == <<
    [check |-> "hashtags",   weight |-> -8,  reason |-> "Excessive hashtags"],
    [check |-> "caps",       weight |-> -10, reason |-> "Excessive caps"],
    [check |-> "repetition", weight |-> -8,  reason |-> "Word repetition"] >>

\* The call check(text) of a spam indicator
SpamCheck(r, t) ==
    CASE r.check = "hashtags"   -> ExcessiveHashtags(t)
      [] r.check = "caps"       -> ExcessiveCaps(t)
      [] r.check = "repetition" -> WordRepetition(t)

-----------------------------------------------------------------------------
(* Objects.  A property that was never set is absent from the function's   *)
(* domain; reading it gives undefined.                                     *)

undefined == "undefined"

EmptyObject == [k \in {} |-> undefined]

Get(o, k) == IF k \in DOMAIN o THEN o[k] ELSE undefined

\* o[k] = v
Put(o, k, v) == [x \in DOMAIN o \cup {k} |-> IF x = k THEN v ELSE o[x]]

\* Faulty variant of OrDefault: the property is read under a name no pass
\* stores, so the default is always taken
OrDefaultAlways(o, k, d) == d

\* o[k] || d for a numeric property: d when the property is absent or is 0
OrDefault(o, k, d) == IF k \notin DOMAIN o THEN d ELSE IF o[k] = 0 THEN d ELSE o[k]

\* The order in which analyzePredictions inserts the keys of predictions
PredictionKeys == <<"P(reply)", "P(favorite)", "P(click)", "P(repost)", "P(follow_author)">>

\* Object.values(predictions)
ObjectValues(o) ==
    LET present == SelectSeq(PredictionKeys, LAMBDA k : k \in DOMAIN o)
    IN  [i \in 1..Len(present) |-> o[present[i]]]

\* Faulty variant of NewResults: wordCount without the filter on empty pieces
NewResultsUnfiltered(t) ==
    [text            |-> t,
     charCount       |-> Len(t),
     wordCount       |-> Len(split(t, SpaceChars)),
     scores          |-> EmptyObject,
     predictions     |-> EmptyObject,
     factors         |-> << >>,
     recommendations |-> << >>,
     warnings        |-> << >>]

\* The object analyzePost builds before its first pass
NewResults(t) ==
    [text            |-> t,
     charCount       |-> Len(t),
     wordCount       |-> Len(SelectSeq(split(t, SpaceChars), LAMBDA w : w # << >>)),
     scores          |-> EmptyObject,
     predictions     |-> EmptyObject,
     factors         |-> << >>,
     recommendations |-> << >>,
     warnings        |-> << >>]

-----------------------------------------------------------------------------
(* analyzePredictions                                                      *)

\* Faulty variant of BoosterStep: score = weight where the code has score += weight
BoosterStepAssigning(r, k, signal, acc, m) ==
    [score   |-> IF m.found THEN r.weight ELSE acc.score,
     factors |-> IF m.found
                 THEN Append(acc.factors,
                             [signal |-> signal,
                              impact |-> <<"+">> \o NumberToString(r.weight),
                              reason |-> r.reason])
                 ELSE acc.factors,
     li      |-> [acc.li EXCEPT ![k] = m.lastIndex]]

\* The body of the forEach callback of a booster category, given the outcome
\* m of pattern.test(text): acc is the running score, the factors list and the
\* lastIndex of the category's RegExp objects
BoosterStep(r, k, signal, acc, m) ==
    [score   |-> IF m.found THEN acc.score + r.weight ELSE acc.score,
     factors |-> IF m.found
                 THEN Append(acc.factors,
                             [signal |-> signal,
                              impact |-> <<"+">> \o NumberToString(r.weight),
                              reason |-> r.reason])
                 ELSE acc.factors,
     li      |-> [acc.li EXCEPT ![k] = m.lastIndex]]

\* One forEach over a booster category, from its k-th rule on
RECURSIVE ApplyBoosters(_, _, _, _, _)
ApplyBoosters(rules, k, signal, t, acc) ==
    IF k > Len(rules) THEN acc
    ELSE ApplyBoosters(rules, k + 1, signal, t,
            BoosterStep(rules[k], k, signal, acc,
                        RegExpTest(rules[k].pattern, t, acc.li[k])))

\* Faulty variant of PredictionCategories: clickScore starts at 35
PredictionCategoriesClick35 == <<
    [name |-> "replyBoosters",    rules |-> replyBoosters,    signal |-> "P(reply)",         baseline |-> 30],
    [name |-> "favoriteBoosters", rules |-> favoriteBoosters, signal |-> "P(favorite)",      baseline |-> 40],
    [name |-> "clickBoosters",    rules |-> clickBoosters,    signal |-> "P(click)",         baseline |-> 35],
    [name |-> "shareBoosters",    rules |-> shareBoosters,    signal |-> "P(repost)",        baseline |-> 20],
    [name |-> "followBoosters",   rules |-> followBoosters,   signal |-> "P(follow_author)", baseline |-> 25] >>

\* The five categories in the order analyzePredictions runs them, each with
\* its signal and its baseline
PredictionCategories == <<
    [name |-> "replyBoosters",    rules |-> replyBoosters,    signal |-> "P(reply)",         baseline |-> 30],
    [name |-> "favoriteBoosters", rules |-> favoriteBoosters, signal |-> "P(favorite)",      baseline |-> 40],
    [name |-> "clickBoosters",    rules |-> clickBoosters,    signal |-> "P(click)",         baseline |-> 25],
    [name |-> "shareBoosters",    rules |-> shareBoosters,    signal |-> "P(repost)",        baseline |-> 20],
    [name |-> "followBoosters",   rules |-> followBoosters,   signal |-> "P(follow_author)", baseline |-> 25] >>

\* Faulty variant of ClampPrediction: Math.max where the code has Math.min
ClampPredictionMax(score) == Max(100, score)

\* Math.min(100, score) of one category
ClampPrediction(score) == Min(100, score)

\* predictions[signal] = Math.min(100, score) after the forEach of category
\* cat ended in a
StorePrediction(cat, st, a) ==
    [results     |-> [st.results EXCEPT !.factors = a.factors],
     predictions |-> Put(st.predictions, cat.signal, ClampPrediction(a.score)),
     lastIndex   |-> [st.lastIndex EXCEPT ![cat.name] = a.li]]

\* One category of analyzePredictions: the score starts at the baseline
ScoreCategory(cat, t, st) ==
    StorePrediction(cat, st,
        ApplyBoosters(cat.rules, 1, cat.signal, t,
            [score |-> cat.baseline, factors |-> st.results.factors,
             li |-> st.lastIndex[cat.name]]))

RECURSIVE PredictionsFrom(_, _, _, _)
PredictionsFrom(cats, c, t, st) ==
    IF c > Len(cats) THEN st
    ELSE PredictionsFrom(cats, c + 1, t, ScoreCategory(cats[c], t, st))

\* results.predictions = predictions
StorePredictions(st) ==
    [results   |-> [st.results EXCEPT !.predictions = st.predictions],
     lastIndex |-> st.lastIndex]

\* analyzePredictions(text, results): the new results and the new lastIndex
analyzePredictions(t, res, li) ==
    StorePredictions(
        PredictionsFrom(PredictionCategories, 1, t,
            [results |-> res, predictions |-> EmptyObject, lastIndex |-> li]))

-----------------------------------------------------------------------------
(* analyzeContentQuality                                                   *)

\* Faulty variant of analyzeContentQuality: the content-value factor is put in
\* front of the list (unshift) where the code pushes it
analyzeContentQualityUnshift(t, res) ==
    LET info == MatchesFrom(informationalPattern, t, 1)
        num  == MatchesFrom(digitsPattern, t, 1)
        hook == SubSeq(t, 1, Min(120, Len(t)))
        strong == MatchesFrom(hookPattern, hook, 1)
        qualityScore == 60 + (IF info THEN 10 ELSE 0) + (IF num THEN 8 ELSE 0)
                           + (IF strong THEN 8 ELSE 0)
        f1 == IF info
              THEN <<[signal |-> "Content value", impact |-> <<"+","1","0">>,
                     reason |-> "Informational content"]>> \o res.factors
              ELSE res.factors
        f2 == IF num
              THEN Append(f1, [signal |-> "Specificity", impact |-> <<"+","8">>,
                               reason |-> "Contains specific numbers/data"])
              ELSE f1
        f3 == IF strong
              THEN Append(f2, [signal |-> "Hook strength", impact |-> <<"+","8">>,
                               reason |-> "Strong opening word"])
              ELSE f2
    IN  [res EXCEPT !.factors = f3,
                    !.scores = Put(res.scores, "contentQuality",
                                   Max(0, Min(100, qualityScore)))]

analyzeContentQuality(t, res) ==
    LET info == MatchesFrom(informationalPattern, t, 1)
        num  == MatchesFrom(digitsPattern, t, 1)
        hook == SubSeq(t, 1, Min(120, Len(t)))
        strong == MatchesFrom(hookPattern, hook, 1)
        qualityScore == 60 + (IF info THEN 10 ELSE 0) + (IF num THEN 8 ELSE 0)
                           + (IF strong THEN 8 ELSE 0)
        f1 == IF info
              THEN Append(res.factors, [signal |-> "Content value", impact |-> <<"+","1","0">>,
                                        reason |-> "Informational content"])
              ELSE res.factors
        f2 == IF num
              THEN Append(f1, [signal |-> "Specificity", impact |-> <<"+","8">>,
                               reason |-> "Contains specific numbers/data"])
              ELSE f1
        f3 == IF strong
              THEN Append(f2, [signal |-> "Hook strength", impact |-> <<"+","8">>,
                               reason |-> "Strong opening word"])
              ELSE f2
    IN  [res EXCEPT !.factors = f3,
                    !.scores = Put(res.scores, "contentQuality",
                                   Max(0, Min(100, qualityScore)))]

-----------------------------------------------------------------------------
(* analyzeNegativeSignals                                                  *)

\* Faulty variant of NegativeStep: safetyScore -= weight, the weights being
\* negative already
NegativeStepSubtracting(r, k, acc, m) ==
    [score    |-> IF m.found THEN acc.score - r.weight ELSE acc.score,
     factors  |-> IF m.found
                  THEN Append(acc.factors,
                              [signal |-> r.signal,
                               impact |-> NumberToString(r.weight),
                               reason |-> r.reason])
                  ELSE acc.factors,
     warnings |-> IF m.found
                  THEN Append(acc.warnings, [type |-> r.signal, message |-> r.reason])
                  ELSE acc.warnings,
     li       |-> [acc.li EXCEPT ![k] = m.lastIndex]]

\* Faulty variant of NegativeStep: the trigger's warning is not pushed
NegativeStepSilent(r, k, acc, m) ==
    [score    |-> IF m.found THEN acc.score + r.weight ELSE acc.score,
     factors  |-> IF m.found
                  THEN Append(acc.factors,
                              [signal |-> r.signal,
                               impact |-> NumberToString(r.weight),
                               reason |-> r.reason])
                  ELSE acc.factors,
     warnings |-> acc.warnings,
     li       |-> [acc.li EXCEPT ![k] = m.lastIndex]]

\* The body of the forEach callback of negativeTriggers, given the outcome m
\* of pattern.test(text)
NegativeStep(r, k, acc, m) ==
    [score    |-> IF m.found THEN acc.score + r.weight ELSE acc.score,
     factors  |-> IF m.found
                  THEN Append(acc.factors,
                              [signal |-> r.signal,
                               impact |-> NumberToString(r.weight),
                               reason |-> r.reason])
                  ELSE acc.factors,
     warnings |-> IF m.found
                  THEN Append(acc.warnings, [type |-> r.signal, message |-> r.reason])
                  ELSE acc.warnings,
     li       |-> [acc.li EXCEPT ![k] = m.lastIndex]]

\* The forEach over negativeTriggers, from its k-th rule on
RECURSIVE ApplyNegativeTriggers(_, _, _, _)
ApplyNegativeTriggers(rules, k, t, acc) ==
    IF k > Len(rules) THEN acc
    ELSE ApplyNegativeTriggers(rules, k + 1, t,
            NegativeStep(rules[k], k, acc,
                         RegExpTest(rules[k].pattern, t, acc.li[k])))

\* The body of the forEach callback of spamIndicators, given the outcome hit
\* of check(text)
SpamStep(r, acc, hit) ==
    [acc EXCEPT
       !.score    = IF hit THEN @ + r.weight ELSE @,
       !.factors  = IF hit
                    THEN Append(@, [signal |-> "Spam risk",
                                    impact |-> NumberToString(r.weight),
                                    reason |-> r.reason])
                    ELSE @,
       !.warnings = IF hit
                    THEN Append(@, [type |-> "spam", message |-> r.reason])
                    ELSE @]

\* The forEach over spamIndicators, from its k-th rule on
RECURSIVE ApplySpamIndicators(_, _, _, _)
ApplySpamIndicators(rules, k, t, acc) ==
    IF k > Len(rules) THEN acc
    ELSE ApplySpamIndicators(rules, k + 1, t,
            SpamStep(rules[k], acc, SpamCheck(rules[k], t)))

\* The body of the forEach callback of mutedRiskPatterns, given the outcome m
\* of pattern.test(text)
MutedStep(r, k, acc, m) ==
    [warnings |-> IF m.found
                  THEN Append(acc.warnings,
                              [type |-> "MutedKeywordFilter risk",
                               risk |-> r.risk, message |-> r.reason])
                  ELSE acc.warnings,
     li       |-> [acc.li EXCEPT ![k] = m.lastIndex]]

\* The forEach over mutedRiskPatterns, from its k-th rule on
RECURSIVE ApplyMutedRisk(_, _, _, _)
ApplyMutedRisk(rules, k, t, acc) ==
    IF k > Len(rules) THEN acc
    ELSE ApplyMutedRisk(rules, k + 1, t,
            MutedStep(rules[k], k, acc,
                      RegExpTest(rules[k].pattern, t, acc.li[k])))

\* results.scores.safety = Math.max(0, safetyScore), given what the three
\* loops left: triggers and spam in spam, the muted-risk warnings in muted
StoreSafety(res, li, spam, muted) ==
    [results   |-> [res EXCEPT !.factors  = spam.factors,
                               !.warnings = muted.warnings,
                               !.scores   = Put(res.scores, "safety", Max(0, spam.score))],
     lastIndex |-> [li EXCEPT !["negativeTriggers"]  = spam.li,
                              !["mutedRiskPatterns"] = muted.li]]

\* The third loop and the final store, after the first two loops left spam
MutedAndStore(t, res, li, spam) ==
    StoreSafety(res, li, spam,
        ApplyMutedRisk(mutedRiskPatterns, 1, t,
            [warnings |-> spam.warnings, li |-> li["mutedRiskPatterns"]]))

\* analyzeNegativeSignals(text, results): the new results and the new
\* lastIndex.  safetyScore starts at 100.
analyzeNegativeSignals(t, res, li) ==
    MutedAndStore(t, res, li,
        ApplySpamIndicators(spamIndicators, 1, t,
            ApplyNegativeTriggers(negativeTriggers, 1, t,
                [score |-> 100, factors |-> res.factors,
                 warnings |-> res.warnings, li |-> li["negativeTriggers"]])))

-----------------------------------------------------------------------------
(* analyzeFormat                                                           *)

\* Faulty variant of MediaTypeOrNone: the destructuring default is 'image'
MediaTypeOrImage(opts) == IF opts.mediaType = undefined THEN "image" ELSE opts.mediaType

\* const { mediaType = 'none' } = options
MediaTypeOrNone(opts) == IF opts.mediaType = undefined THEN "none" ELSE opts.mediaType

analyzeFormat(t, opts, res) ==
    LET mediaType == MediaTypeOrNone(opts)
        optimal   == Len(t) >= 100 /\ Len(t) <= 200
        short     == ~ optimal /\ Len(t) < 50
        s1 == 50 + (IF optimal THEN 10 ELSE 0) - (IF short THEN 5 ELSE 0)
        f1 == IF optimal
              THEN Append(res.factors, [signal |-> "Length", impact |-> <<"+","1","0">>,
                                        reason |-> "Optimal length (100-200 chars)"])
              ELSE res.factors
        w1 == IF short
              THEN Append(res.warnings, [type |-> "length",
                                         message |-> "Very short - may lack context"])
              ELSE res.warnings
        s2 == CASE mediaType = "video"  -> s1 + 20
                [] mediaType = "image"  -> s1 + 15
                [] mediaType = "thread" -> s1 + 10
                [] OTHER -> s1
        f2 == CASE mediaType = "video"  ->
                     Append(f1, [signal |-> "P(video_view)", impact |-> <<"+","2","0">>,
                                 reason |-> "Video content"])
                [] mediaType = "image"  ->
                     Append(f1, [signal |-> "P(photo_expand)", impact |-> <<"+","1","5">>,
                                 reason |-> "Image content"])
                [] mediaType = "thread" ->
                     Append(f1, [signal |-> "P(dwell)", impact |-> <<"+","1","0">>,
                                 reason |-> "Thread format"])
                [] OTHER -> f1
    IN  [res EXCEPT !.factors = f2, !.warnings = w1,
                    !.scores = Put(res.scores, "format", Min(100, s2))]

-----------------------------------------------------------------------------
(* calculateOverallScore                                                   *)

\* Math.round of n / 100 for an integer n >= 0 (a tie rounds up)
RoundHundredths(n) == (n + 50) \div 100

\* avgPrediction * 0.5 + contentQuality * 0.2 + format * 0.15 + safety * 0.15 in
\* hundredths, with avgPrediction the sum of the five predictions over five.
\* Every value the passes can store lies on the grid of integers for which the
\* double-precision expression rounds to the same integer as this exact one.
calculateOverallScore(res) ==
    LET predictionValues == ObjectValues(res.predictions)
        total == SumSeq(predictionValues)
        hundredths == (total * 50) \div Len(predictionValues)
                      + OrDefault(res.scores, "contentQuality", 50) * 20
                      + OrDefault(res.scores, "format", 50) * 15
                      + OrDefault(res.scores, "safety", 100) * 15
    IN  [res EXCEPT !.scores = Put(res.scores, "overall", RoundHundredths(hundredths))]

-----------------------------------------------------------------------------
(* generateRecommendations                                                 *)

AddQuestion ==
    [priority |-> "high", action |-> "Add a question",
     algorithmBenefit |-> "Increases P(reply) prediction from Phoenix ranking model",
     example |-> "End with \"Thoughts?\" or \"What would you add?\""]

AddCallToAction ==
    [priority |-> "medium", action |-> "Add a soft call-to-action",
     algorithmBenefit |-> "Boosts P(click) and P(profile_click) in weighted scoring",
     example |-> "Try \"Check out...\", \"See more...\", or \"Explore...\""]

AddShareableValue ==
    [priority |-> "medium", action |-> "Add shareable value",
     algorithmBenefit |-> "Increases P(repost) and P(share) predictions",
     example |-> "Include a tip, insight, or announcement worth sharing"]

ConsiderThread ==
    [priority |-> "low", action |-> "Consider thread format",
     algorithmBenefit |-> "Long-form content performs better as threads, increasing P(dwell)",
     example |-> "Break into 2-4 connected tweets"]

AddCommunityLanguage ==
    [priority |-> "low", action |-> "Add community language",
     algorithmBenefit |-> "Increases P(follow_author) prediction",
     example |-> "Use \"we\", \"our community\", or inclusive language"]

\* Faulty variant of generateRecommendations: the thread check comes after the
\* community-language check
generateRecommendationsReordered(res, opts) ==
    LET r1 == IF res.predictions["P(reply)"] < 50
                 /\ ~ MatchesFrom([kind |-> "chars", flags |-> {}, chars |-> {"?"}], res.text, 1)
              THEN <<AddQuestion>> ELSE << >>
        r2 == IF res.predictions["P(click)"] < 40 THEN Append(r1, AddCallToAction) ELSE r1
        r3 == IF res.predictions["P(repost)"] < 40 THEN Append(r2, AddShareableValue) ELSE r2
        r4 == IF res.predictions["P(follow_author)"] < 40
              THEN Append(r3, AddCommunityLanguage) ELSE r3
        r5 == IF Len(res.text) > 250 /\ opts.mediaType # "thread"
              THEN Append(r4, ConsiderThread) ELSE r4
    IN  [res EXCEPT !.recommendations = r5]

generateRecommendations(res, opts) ==
    LET r1 == IF res.predictions["P(reply)"] < 50
                 /\ ~ MatchesFrom([kind |-> "chars", flags |-> {}, chars |-> {"?"}], res.text, 1)
              THEN <<AddQuestion>> ELSE << >>
        r2 == IF res.predictions["P(click)"] < 40 THEN Append(r1, AddCallToAction) ELSE r1
        r3 == IF res.predictions["P(repost)"] < 40 THEN Append(r2, AddShareableValue) ELSE r2
        r4 == IF Len(res.text) > 250 /\ opts.mediaType # "thread"
              THEN Append(r3, ConsiderThread) ELSE r3
        r5 == IF res.predictions["P(follow_author)"] < 40
              THEN Append(r4, AddCommunityLanguage) ELSE r4
    IN  [res EXCEPT !.recommendations = r5]

-----------------------------------------------------------------------------
(* generateOptimizedVariants                                               *)

\* Faulty variant of getChanges: >= where the code has > in the length test
getChangesFromTen(original, modified) ==
    LET c1 == IF includes(modified, "?") /\ ~ includes(original, "?")
              THEN <<"Added question">> ELSE << >>
        c2 == IF Len(modified) >= Len(original) + 10
              THEN Append(c1, "Added engagement hook") ELSE c1
    IN  IF Len(c2) = 0 THEN <<"Structure optimized">> ELSE c2

getChanges(original, modified) ==
    LET c1 == IF includes(modified, "?") /\ ~ includes(original, "?")
              THEN <<"Added question">> ELSE << >>
        c2 == IF Len(modified) > Len(original) + 10
              THEN Append(c1, "Added engagement hook") ELSE c1
    IN  IF Len(c2) = 0 THEN <<"Structure optimized">> ELSE c2

\* '\n\nThoughts?'
ThoughtsLine == <<"\n","\n","T","h","o","u","g","h","t","s","?">>

\* The reply invitation of the conversation starter (its last four code units
\* are the source file's own: U+00F0 U+0178 U+2018 U+2021)
ConversationLine ==
    <<"\n","\n","W","h","a","t"," ","w","o","u","l","d"," ","y","o","u"," ","a","d","d","?"," ">>
    \o <<"U+00F0","U+0178","U+2018","U+2021">>

\* The teaser of the short variant
TeaserLine ==
    <<".","\n","\n","M","o","r","e"," ","s","o","o","n"," ">>
    \o <<"U+00F0","U+0178","U+2018","U+20AC">>

\* The marker a thread opener starts with
ThreadMarker == <<"U+00F0","U+0178","U+00A7","U+00B5"," ">>

\* text.split(/[.!?]+/).filter(s => s.trim())
Sentences(t) ==
    SelectSeq(split(t, {".", "!", "?"}), LAMBDA s : trim(s) # << >>)

\* Math.ceil(n / 2)
CeilHalf(n) == (n + 1) \div 2

\* generateOptimizedVariants(text, analysis): the list it returns, or the
\* TypeError of reading sentences[0].trim when sentences is empty
generateOptimizedVariants(t, analysis) ==
    LET primary == IF analysis.predictions["P(reply)"] < 50 /\ ~ includes(t, "?")
                   THEN trim(t) \o ThoughtsLine ELSE trim(t)
        v1 == [type |-> "Primary Optimized", content |-> primary,
               changes |-> getChanges(t, primary),
               expectedImpact |-> "Balanced optimization for engagement"]
        v2 == [type |-> "Conversation Starter", content |-> trim(t) \o ConversationLine,
               changes |-> <<"Added direct reply invitation">>,
               expectedImpact |-> "Significantly increases P(reply)"]
        sentences == Sentences(t)
        l3 == IF Len(sentences) > 1
              THEN <<v1, v2,
                     [type |-> "Short & Punchy",
                      content |-> trim(sentences[1]) \o TeaserLine,
                      changes |-> <<"Condensed to hook only", "Added curiosity tease">>,
                      expectedImpact |-> "Higher completion rate, builds anticipation"]>>
              ELSE <<v1, v2>>
    IN  IF Len(t) > 150
        THEN IF Len(sentences) = 0
             THEN [threw |-> TRUE, value |-> "TypeError"]
             ELSE [threw |-> FALSE,
                   value |-> Append(l3,
                     [type |-> "Thread Opener",
                      content |-> ThreadMarker \o trim(sentences[1]) \o <<"\n","\n","(","1","/">>
                                  \o NumberToString(CeilHalf(Len(sentences))) \o <<")">>,
                      changes |-> <<"Reformatted as thread", "Added thread markers">>,
                      expectedImpact |-> "Increases P(click), P(dwell) for long-form"])]
        ELSE [threw |-> FALSE, value |-> l3]

-----------------------------------------------------------------------------
(* generatePostingStrategy                                                 *)

StrategyTiming == <<
    [time |-> "7-9am EST",  reason |-> "Peak morning engagement for US audiences"],
    [time |-> "12-1pm EST", reason |-> "Lunch break scrolling peak"],
    [time |-> "6-8pm EST",  reason |-> "Evening wind-down peak"] >>

StrategyFollowUp == <<
    [timing |-> "0-15 min",  action |-> "Reply to early commenters",
     reason |-> "Early velocity signals quality"],
    [timing |-> "30 min",    action |-> "Quote tweet with additional context",
     reason |-> "Creates second entry point"],
    [timing |-> "2-4 hours", action |-> "Share related follow-up",
     reason |-> "Maintains topic momentum"] >>

\* Faulty variant of generatePostingStrategy: the thread threshold is 250, the
\* threshold of generateRecommendations
generatePostingStrategyOver250(analysis, opts) ==
    LET thread == Len(analysis.text) > 250 /\ opts.mediaType # "thread" IN
    [format       |-> IF thread THEN "thread" ELSE "single",
     formatReason |-> IF thread
                      THEN "Content length suggests thread format for better engagement"
                      ELSE IF opts.mediaType = "video"
                           THEN "Video content performs best as standalone post"
                           ELSE "Standard single post format",
     linkStrategy |-> IF opts.hasLink
                      THEN IF opts.goal = "traffic" THEN "reply-link" ELSE "bio-link"
                      ELSE "null",
     linkReason   |-> IF opts.hasLink
                      THEN IF opts.goal = "traffic"
                           THEN "Put link in first reply to maximize main post reach while still driving clicks"
                           ELSE "Use \"link in bio\" to keep post clean for better in-feed performance"
                      ELSE "",
     timing       |-> StrategyTiming,
     followUp     |-> StrategyFollowUp]

generatePostingStrategy(analysis, opts) ==
    LET thread == Len(analysis.text) > 200 /\ opts.mediaType # "thread" IN
    [format       |-> IF thread THEN "thread" ELSE "single",
     formatReason |-> IF thread
                      THEN "Content length suggests thread format for better engagement"
                      ELSE IF opts.mediaType = "video"
                           THEN "Video content performs best as standalone post"
                           ELSE "Standard single post format",
     linkStrategy |-> IF opts.hasLink
                      THEN IF opts.goal = "traffic" THEN "reply-link" ELSE "bio-link"
                      ELSE "null",
     linkReason   |-> IF opts.hasLink
                      THEN IF opts.goal = "traffic"
                           THEN "Put link in first reply to maximize main post reach while still driving clicks"
                           ELSE "Use \"link in bio\" to keep post clean for better in-feed performance"
                      ELSE "",
     timing       |-> StrategyTiming,
     followUp     |-> StrategyFollowUp]

-----------------------------------------------------------------------------
(* The inputs: texts, options.                                             *)

\* The most fragments a generated text is made of
MaxParts == 2

\* The most fragments of the text of the first call of a session
MaxSessionParts == 1

Blank151 == [i \in 1..151 |-> " "]

Filler149 == [i \in 1..149 |-> "x"]

\* The fragments texts are concatenated from
Vocabulary == {
    Blank151,
    Filler149,
    <<"1","0","0","x"," ","g","u","a","r","a","n","t","e","e","d"," ","r","e","t","u","r","n","s",","," ">>,
    <<"b","u","y"," ","n","o","w","!">>,
    <<"T","h","o","u","g","h","t","s","?">>,
    <<"H","O","T"," ","T","A","K","E",","," ","R","T"," ","I","F"," ">>,
    <<"C","h","e","c","k"," ","o","u","t"," ","o","u","r"," ","l","i","n","k"," ","i","n"," ","b","i","o","."," ">>,
    <<"F","i","n","a","l","l","y"," ","l","a","u","n","c","h","i","n","g"," ","o","u","r"," ","a","i","r","d","r","o","p"," ","g","u","i","d","e"," ">>
      \o <<"U+D83D","U+DD25"," ">> }

\* The scenario texts of the specification's testable properties: the launch
\* post, a text of length 300, and the hard sell
ScenarioTexts == {
    <<"C","h","e","c","k"," ","o","u","t"," ","o","u","r"," ","n","e","w"," ","l","a","u","n","c","h","!"," ","#","n","e","w"," ","#","l","a","u","n","c","h"," ","#","c","r","y","p","t","o"," ","#","g","m"," ","T","h","o","u","g","h","t","s","?">>,
    [i \in 1..300 |-> IF i % 10 = 0 THEN " " ELSE "x"],
    <<"1","0","0","x"," ","g","u","a","r","a","n","t","e","e","d"," ","r","e","t","u","r","n","s",","," ","b","u","y"," ","n","o","w","!">> }

\* The concatenations of at most n fragments
RECURSIVE TextsOfParts(_)
TextsOfParts(n) ==
    IF n = 0 THEN {<< >>}
    ELSE LET shorter == TextsOfParts(n - 1)
         IN  shorter \cup {t \o v : t \in shorter, v \in Vocabulary}

\* Texts on both sides of every length threshold of the code (50, 100, 150,
\* 200, 250)
BoundaryTexts ==
    {[i \in 1..n |-> "x"] : n \in {49, 50, 99, 100, 150, 151, 200, 201, 250, 251}}

\* Texts around the word-repetition check: ten and eleven words, a word
\* three and four times, in mixed case, with whitespace before or after, and
\* with a word that names an inherited property of the freq object
RepetitionTexts == {
    <<"g","o"," ","g","o"," ","g","o"," ","g","o"," ","a"," ","b"," ","c"," ","d"," ","e"," ","f">>,
    <<" ","g","o"," ","g","o"," ","g","o"," ","g","o"," ","a"," ","b"," ","c"," ","d"," ","e"," ","f">>,
    <<"g","o"," ","g","o"," ","g","o"," ","g","o"," ","a"," ","b"," ","c"," ","d"," ","e"," ","f"," ">>,
    <<"G","o"," ","g","o"," ","G","O"," ","g","o"," ","a"," ","b"," ","c"," ","d"," ","e"," ","f"," ","g">>,
    <<"g","o"," ","g","o"," ","g","o"," ","a"," ","b"," ","c"," ","d"," ","e"," ","f"," ","g"," ","h">>,
    <<"c","o","n","s","t","r","u","c","t","o","r"," ","g","o"," ","g","o"," ","g","o"," ","g","o"," ","a"," ","b"," ","c"," ","d"," ","e"," ","f">> }

Texts == ScenarioTexts \cup BoundaryTexts \cup RepetitionTexts \cup TextsOfParts(MaxParts)

SessionTexts == ScenarioTexts \cup TextsOfParts(MaxSessionParts)

\* options.mediaType as analyzePost may receive it: absent, the four
\* recognised values, one that is not recognised
MediaTypes == {undefined, "none", "image", "video", "thread", "gif"}

RecognisedMediaTypes == {"none", "image", "video", "thread"}

AnalyzeOptions == [mediaType : MediaTypes]

StrategyOptions ==
    [hasLink : BOOLEAN, mediaType : {undefined, "video", "thread"},
     goal : {undefined, "traffic"}]

\* The sentences a later call of a session appends, and what separates them
\* from the text
QuestionSentences == {
    <<"T","h","o","u","g","h","t","s","?">>,
    <<"W","h","a","t"," ","d","o"," ","y","o","u"," ","t","h","i","n","k","?">> }

Separators == { << >>, <<" ">>, <<"\n","\n">> }

\* The appended string s begins a word of its own after t: it does not run on
\* from the last word of t (a \b of the patterns lies between t and s)
StartsNewWord(t, s) ==
    ~ (t # << >> /\ s # << >> /\ t[Len(t)] \in WordChars /\ s[1] \in WordChars)

\* The arguments of the calls a session makes between two calls on the same
\* arguments
OtherCalls == {
    [text |-> <<"J","o","i","n"," ","u","s","?"," ","W","e"," ","a","r","e"," ","s","h","i","p","p","i","n","g",".">>,
     options |-> [mediaType |-> "video"]],
    [text |-> <<"H","O","T"," ","T","A","K","E">>,
     options |-> [mediaType |-> undefined]] }

-----------------------------------------------------------------------------
(* The state machine.                                                      *)

\* lastIndex of the RegExp objects PATTERNS holds, as a fresh module has them
FreshLastIndex ==
    [replyBoosters     |-> [k \in 1..Len(replyBoosters) |-> 0],
     favoriteBoosters  |-> [k \in 1..Len(favoriteBoosters) |-> 0],
     clickBoosters     |-> [k \in 1..Len(clickBoosters) |-> 0],
     shareBoosters     |-> [k \in 1..Len(shareBoosters) |-> 0],
     followBoosters    |-> [k \in 1..Len(followBoosters) |-> 0],
     negativeTriggers  |-> [k \in 1..Len(negativeTriggers) |-> 0],
     mutedRiskPatterns |-> [k \in 1..Len(mutedRiskPatterns) |-> 0]]

NoCall == [op |-> "none", args |-> << >>, ret |-> << >>]

NoMemo == [set |-> FALSE]

\* analyzePost(t, o) was called and has yet to build its results object
Called(t, o) ==
    /\ text = t
    /\ options = o
    /\ results = EmptyObject
    /\ pc = "analyzePost"

InitWith(ts) ==
    /\ \E t \in ts, o \in AnalyzeOptions : Called(t, o)
    /\ lastIndex = FreshLastIndex
    /\ out = NoCall
    /\ memo = NoMemo
    /\ rel = "first"

Init == InitWith(Texts)

InitSession == InitWith(SessionTexts)

\* const results = { text, charCount, wordCount, ... }
Enter ==
    /\ pc = "analyzePost"
    /\ results' = NewResults(text)
    /\ pc' = "analyzePredictions"
    /\ UNCHANGED <<text, options, lastIndex, out, memo, rel>>

\* A pass leaves r.results in results and r.lastIndex in the RegExp objects
Stores(r) == results' = r.results /\ lastIndex' = r.lastIndex

PredictionPass ==
    /\ pc = "analyzePredictions"
    /\ Stores(analyzePredictions(text, results, lastIndex))
    /\ pc' = "analyzeContentQuality"
    /\ UNCHANGED <<text, options, out, memo, rel>>

ContentQualityPass ==
    /\ pc = "analyzeContentQuality"
    /\ results' = analyzeContentQuality(text, results)
    /\ pc' = "analyzeNegativeSignals"
    /\ UNCHANGED <<text, options, lastIndex, out, memo, rel>>

NegativeSignalPass ==
    /\ pc = "analyzeNegativeSignals"
    /\ Stores(analyzeNegativeSignals(text, results, lastIndex))
    /\ pc' = "analyzeFormat"
    /\ UNCHANGED <<text, options, out, memo, rel>>

FormatPass ==
    /\ pc = "analyzeFormat"
    /\ results' = analyzeFormat(text, options, results)
    /\ pc' = "calculateOverallScore"
    /\ UNCHANGED <<text, options, lastIndex, out, memo, rel>>

Aggregation ==
    /\ pc = "calculateOverallScore"
    /\ results' = calculateOverallScore(results)
    /\ pc' = "generateRecommendations"
    /\ UNCHANGED <<text, options, lastIndex, out, memo, rel>>

Recommendation ==
    /\ pc = "generateRecommendations"
    /\ results' = generateRecommendations(results, options)
    /\ pc' = "return"
    /\ UNCHANGED <<text, options, lastIndex, out, memo, rel>>

\* The caller hands the text and the analysis it got to generateOptimizedVariants
GenerateVariants ==
    /\ pc = "return"
    /\ out' = [op |-> "generateOptimizedVariants", args |-> << >>,
               ret |-> generateOptimizedVariants(text, results)]
    /\ UNCHANGED <<text, options, results, pc, lastIndex, memo, rel>>

\* The caller hands the analysis it got to generatePostingStrategy
GenerateStrategy ==
    /\ pc = "return"
    /\ \E o \in StrategyOptions :
          out' = [op |-> "generatePostingStrategy", args |-> o,
                  ret |-> generatePostingStrategy(results, o)]
    /\ UNCHANGED <<text, options, results, pc, lastIndex, memo, rel>>

Next ==
    \/ Enter
    \/ PredictionPass
    \/ ContentQualityPass
    \/ NegativeSignalPass
    \/ FormatPass
    \/ Aggregation
    \/ Recommendation
    \/ GenerateVariants
    \/ GenerateStrategy

Spec == Init /\ [][Next]_vars

-----------------------------------------------------------------------------
(* A session: after the first call returns, the caller calls analyzePost   *)
(* again.  memo keeps the first call's arguments and result.               *)

Remembered ==
    IF memo.set THEN memo
    ELSE [set |-> TRUE, text |-> text, options |-> options, results |-> results]

\* A later call analyzePost(t, o)
CallAgain(t, o, how) ==
    /\ pc = "return"
    /\ memo' = Remembered
    /\ text' = t
    /\ options' = o
    /\ results' = EmptyObject
    /\ pc' = "analyzePost"
    /\ rel' = how
    /\ out' = NoCall
    /\ UNCHANGED lastIndex

\* The same arguments as the first call
CallSame == CallAgain(Remembered.text, Remembered.options, "same")

\* The first call's text with a sentence that holds a question mark appended
CallAppended ==
    \E sep \in Separators, q \in QuestionSentences :
        /\ StartsNewWord(Remembered.text, sep \o q)
        /\ CallAgain(Remembered.text \o sep \o q, Remembered.options, "appended")

\* The first call's text with mediaType "none"
CallWithNone == CallAgain(Remembered.text, [mediaType |-> "none"], "none")

\* Other arguments
CallOther == \E c \in OtherCalls : CallAgain(c.text, c.options, "other")

NextSession ==
    \/ Next
    \/ CallSame
    \/ CallAppended
    \/ CallWithNone
    \/ CallOther

SessionSpec == InitSession /\ [][NextSession]_vars

-----------------------------------------------------------------------------
(* The claims.                                                             *)

\* analyzePost has returned and no generator was called on its result yet
AnalyzeReturned == pc = "return" /\ out = NoCall

\* The sum of the weights of the rules of a category whose pattern matches t
MatchedWeight(rules, t) ==
    SumSeq([k \in 1..Len(rules) |->
              IF MatchesFrom(rules[k].pattern, t, 1) THEN rules[k].weight ELSE 0])

HardSellText == <<"1","0","0","x"," ","g","u","a","r","a","n","t","e","e","d"," ","r","e","t","u","r","n","s",","," ","b","u","y"," ","n","o","w","!">>

\* C1: whatever the text, generateOptimizedVariants returns without throwing
\* a list that starts with the variants "Primary Optimized" and "Conversation
\* Starter", and every variant's changes list is non-empty.
C1_VariantsAlwaysReturned ==
    out.op = "generateOptimizedVariants" =>
        /\ ~ out.ret.threw
        /\ Len(out.ret.value) >= 2
        /\ out.ret.value[1].type = "Primary Optimized"
        /\ out.ret.value[2].type = "Conversation Starter"
        /\ \A i \in 1..Len(out.ret.value) : out.ret.value[i].changes # << >>

\* C2: each of the five predictions analyzePost returns is an integer in
\* 0..100 and equals min(100, baseline + the weights of the matching rules of
\* the signal's category), with the baselines 30, 40, 25, 20, 25.
C2_PredictionsAreClampedSums ==
    AnalyzeReturned =>
        /\ DOMAIN results.predictions =
              {"P(reply)", "P(favorite)", "P(click)", "P(repost)", "P(follow_author)"}
        /\ \A k \in DOMAIN results.predictions : results.predictions[k] \in 0..100
        /\ results.predictions["P(reply)"] = Min(100, 30 + MatchedWeight(replyBoosters, text))
        /\ results.predictions["P(favorite)"] = Min(100, 40 + MatchedWeight(favoriteBoosters, text))
        /\ results.predictions["P(click)"] = Min(100, 25 + MatchedWeight(clickBoosters, text))
        /\ results.predictions["P(repost)"] = Min(100, 20 + MatchedWeight(shareBoosters, text))
        /\ results.predictions["P(follow_author)"] = Min(100, 25 + MatchedWeight(followBoosters, text))

\* C2 witness: a returned analysis in which boosters of several categories
\* matched
C2_Witness ==
    /\ AnalyzeReturned
    /\ results.predictions["P(reply)"] = 42
    /\ results.predictions["P(click)"] = 38
    /\ results.predictions["P(follow_author)"] = 31

\* C3: in the result analyzePost returns, scores.safety lies in 0..100 and
\* scores.overall is an integer in 0..100.
C3_SafetyAndOverallInRange ==
    AnalyzeReturned =>
        /\ results.scores["safety"] \in 0..100
        /\ results.scores["overall"] \in 0..100

\* C3 witness: a returned analysis whose safety score took deductions
C3_Witness ==
    /\ AnalyzeReturned
    /\ results.scores["safety"] < 70
    /\ Len(results.warnings) >= 2

\* C4: analyzePost("", {}) returns charCount 0, wordCount 0, the predictions
\* at their baselines and safety 100; no spam check fires on the empty text.
C4_EmptyTextAtBaselines ==
    (AnalyzeReturned /\ text = << >> /\ options.mediaType = undefined) =>
        /\ results.charCount = 0
        /\ results.wordCount = 0
        /\ results.predictions["P(reply)"] = 30
        /\ results.predictions["P(favorite)"] = 40
        /\ results.predictions["P(click)"] = 25
        /\ results.predictions["P(repost)"] = 20
        /\ results.predictions["P(follow_author)"] = 25
        /\ results.scores["safety"] = 100
        /\ \A i \in 1..Len(spamIndicators) : ~ SpamCheck(spamIndicators[i], text)
        /\ \A i \in 1..Len(results.warnings) : results.warnings[i].type # "spam"
        /\ \A i \in 1..Len(results.factors) : results.factors[i].signal # "Spam risk"

\* C4 witness: analyzePost("", {}) has returned
C4_Witness ==
    /\ AnalyzeReturned
    /\ text = << >>
    /\ options.mediaType = undefined
    /\ results.text = << >>

\* C5: a later call of analyzePost on the arguments of the first call, whatever
\* calls came between, returns the result the first call returned.
C5_SameArgumentsSameResult ==
    (pc = "return" /\ rel = "same") => results = memo.results

\* C5 witness: a repeated call has returned a result that rules contributed to
C5_Witness ==
    /\ pc = "return"
    /\ rel = "same"
    /\ memo.set
    /\ Len(results.factors) >= 3
    /\ includes(text, "?")

\* C6 as stated: for "100x guaranteed returns, buy now!" with default options
\* the hard-sell and the scam-language triggers fire, safety is at most 65 and
\* the returned warnings list has exactly two entries.
C6_ExactlyTwoWarnings ==
    (AnalyzeReturned /\ text = HardSellText /\ options.mediaType = undefined) =>
        /\ results.scores["safety"] <= 65
        /\ Len(results.warnings) = 2

\* C6 as amended: for "100x guaranteed returns, buy now!" with default options
\* the hard-sell trigger (-15, P(not_interested)) and the scam-language trigger
\* (-20, P(report)) fire, safety is 65, and the returned warnings list has
\* exactly three entries: the two warnings of the triggers, then the format
\* pass's length warning, the text being shorter than 50 characters.
C6_TwoTriggerWarningsAndLengthWarning ==
    (AnalyzeReturned /\ text = HardSellText /\ options.mediaType = undefined) =>
        /\ results.scores["safety"] = 65
        /\ results.factors =
              << [signal |-> "Specificity", impact |-> <<"+","8">>,
                  reason |-> "Contains specific numbers/data"],
                 [signal |-> "P(not_interested)", impact |-> <<"-","1","5">>,
                  reason |-> "Hard sell language"],
                 [signal |-> "P(report)", impact |-> <<"-","2","0">>,
                  reason |-> "Scam-associated language"] >>
        /\ results.warnings =
              << [type |-> "P(not_interested)", message |-> "Hard sell language"],
                 [type |-> "P(report)", message |-> "Scam-associated language"],
                 [type |-> "length", message |-> "Very short - may lack context"] >>

\* C6 witness: the analysis of the hard-sell text has returned
C6_Witness ==
    /\ AnalyzeReturned
    /\ text = HardSellText
    /\ options.mediaType = undefined
    /\ Len(results.warnings) = 3

\* The condition the claim gives for each recommendation
RecommendationDue(action) ==
    CASE action = "Add a question" ->
            results.predictions["P(reply)"] < 50 /\ ~ includes(text, "?")
      [] action = "Add a soft call-to-action" -> results.predictions["P(click)"] < 40
      [] action = "Add shareable value" -> results.predictions["P(repost)"] < 40
      [] action = "Consider thread format" ->
            Len(text) > 250 /\ options.mediaType # "thread"
      [] action = "Add community language" -> results.predictions["P(follow_author)"] < 40

\* C7: the recommendations analyzePost returns are exactly those of "Add a
\* question", "Add a soft call-to-action", "Add shareable value", "Consider
\* thread format", "Add community language" whose condition holds, in that
\* order and without duplicates.
C7_RecommendationsInFixedOrder ==
    AnalyzeReturned =>
        [i \in 1..Len(results.recommendations) |-> results.recommendations[i].action]
          = SelectSeq(<<"Add a question", "Add a soft call-to-action",
                        "Add shareable value", "Consider thread format",
                        "Add community language">>, RecommendationDue)

\* C7 witness: an analysis that returned all five recommendations
C7_Witness ==
    /\ AnalyzeReturned
    /\ Len(results.recommendations) = 5

\* C8: generatePostingStrategy returns format "thread" exactly when the
\* analysed text is longer than 200 characters and its options' mediaType is
\* not "thread", and "single" otherwise; for a text of length 300 analysed and
\* planned with no media type the format is "thread" and the recommendations
\* include "Consider thread format".
C8_ThreadFormatOverTwoHundred ==
    out.op = "generatePostingStrategy" =>
        /\ out.ret.format =
              (IF Len(text) > 200 /\ out.args.mediaType # "thread"
               THEN "thread" ELSE "single")
        /\ (Len(text) = 300 /\ options.mediaType = undefined
                /\ out.args.mediaType = undefined) =>
              /\ out.ret.format = "thread"
              /\ \E i \in 1..Len(results.recommendations) :
                    results.recommendations[i].action = "Consider thread format"

\* C8 witness: the strategy of a text of length 300 with no media type
C8_Witness ==
    /\ out.op = "generatePostingStrategy"
    /\ Len(text) = 300
    /\ options.mediaType = undefined
    /\ out.args.mediaType = undefined
    /\ out.ret.format = "thread"

\* The weights of the reply boosters that match new and did not match old
NewlyMatchedWeight(old, new) ==
    SumSeq([k \in 1..Len(replyBoosters) |->
              IF /\ MatchesFrom(replyBoosters[k].pattern, new, 1)
                 /\ ~ MatchesFrom(replyBoosters[k].pattern, old, 1)
              THEN replyBoosters[k].weight ELSE 0])

C10_UnrecognisedMediaTypeAsNone ==
    (AnalyzeReturned /\ rel = "none"
        /\ memo.options.mediaType \notin RecognisedMediaTypes) =>
        results = memo.results

\* C10 witness: a long text analysed with mediaType "gif", then with "none"
C10_Witness ==
    /\ AnalyzeReturned
    /\ rel = "none"
    /\ memo.options.mediaType = "gif"
    /\ Len(text) > 250

\* C11: scores.overall is round(mean of the five predictions * 0.5 +
\* contentQuality * 0.2 + format * 0.15 + safety * 0.15) of the values the four
\* passes stored; no default stands in for a stored value, and no pass stores
\* the value 0 that the || of the defaults would take for absent (the tables'
\* deductions leave safety above 0).
C11_OverallFromStoredScores ==
    AnalyzeReturned =>
        /\ DOMAIN results.scores = {"contentQuality", "safety", "format", "overall"}
        /\ results.scores["overall"] =
              ( ( results.predictions["P(reply)"] + results.predictions["P(favorite)"]
                  + results.predictions["P(click)"] + results.predictions["P(repost)"]
                  + results.predictions["P(follow_author)"] ) * 10
                + results.scores["contentQuality"] * 20
                + results.scores["format"] * 15
                + results.scores["safety"] * 15 + 50 ) \div 100
        /\ results.scores["contentQuality"] > 0
        /\ results.scores["format"] > 0
        /\ results.scores["safety"] > 0
        /\ 100 + SumSeq([k \in 1..Len(negativeTriggers) |-> negativeTriggers[k].weight])
               + SumSeq([k \in 1..Len(spamIndicators) |-> spamIndicators[k].weight]) > 0

\* C11 witness: a returned analysis none of whose three sub-scores has the
\* value of its default
C11_Witness ==
    /\ AnalyzeReturned
    /\ results.scores["contentQuality"] # 50
    /\ results.scores["format"] # 50
    /\ results.scores["safety"] < 70

\* The non-empty whitespace-separated words of t, in lower case: the words
\* analyzePost counts as wordCount
LowerWords(t) ==
    LET words == SelectSeq(split(t, SpaceChars), LAMBDA w : w # << >>)
    IN  [i \in 1..Len(words) |-> toLowerCase(words[i])]

\* Some word occurs more than 3 times among ws
RepeatedWord(ws) ==
    \E i \in 1..Len(ws) : Cardinality({j \in 1..Len(ws) : ws[j] = ws[i]}) > 3

\* The word-repetition check has fired in the returned analysis
RepetitionWarned ==
    \E i \in 1..Len(results.warnings) :
        results.warnings[i] = [type |-> "spam", message |-> "Word repetition"]

\* C12: the word-repetition spam check fires exactly when some lowercase
\* word occurs more than 3 times in the text and the text has more than 10
\* words, the word total being the wordCount analyzePost reports; whitespace
\* before or after the text does not change whether it fires.
C12_RepetitionByWordCount ==
    AnalyzeReturned =>
        /\ results.wordCount = Len(LowerWords(text))
        /\ RepetitionWarned <=> (RepeatedWord(LowerWords(text)) /\ results.wordCount > 10)
        /\ WordRepetition(text) <=> WordRepetition(trim(text))

\* s is a prefix of t
IsPrefix(s, t) == Len(s) <= Len(t) /\ \A i \in 1..Len(s) : t[i] = s[i]

\* One step of a call, from a state in which the results object exists
AppendOnlyStep ==
    /\ IsPrefix(results.factors, results'.factors)
    /\ IsPrefix(results.warnings, results'.warnings)
    /\ DOMAIN results.scores \subseteq DOMAIN results'.scores
    /\ ("overall" \in DOMAIN results'.scores /\ "overall" \notin DOMAIN results.scores) =>
          /\ pc = "calculateOverallScore"
          /\ DOMAIN results.scores = {"contentQuality", "safety", "format"}
    /\ "overall" \in DOMAIN results.scores => results'.scores = results.scores
    /\ pc \in {"calculateOverallScore", "generateRecommendations"} =>
          /\ results'.predictions = results.predictions
          /\ results'.factors = results.factors
          /\ results'.warnings = results.warnings
          /\ \A k \in DOMAIN results.scores : results'.scores[k] = results.scores[k]

\* C13: over the steps of one analyzePost call factors and warnings only grow
\* by appending (each value is a prefix of the next); scores.overall is written
\* only by the aggregation, after the four passes stored their scores; the
\* aggregation and the recommendation step leave predictions, the other
\* scores, factors and warnings as they are.
C13_FactorsAndWarningsAppendOnly ==
    [][pc # "analyzePost" => AppendOnlyStep]_vars

\* C13 witness: a returned analysis whose factors come from the prediction
\* pass first and the format pass last, with warnings of two passes
C13_Witness ==
    /\ AnalyzeReturned
    /\ Len(results.factors) >= 4
    /\ results.factors[1].signal = "P(reply)"
    /\ results.factors[Len(results.factors)].signal = "P(video_view)"
    /\ Len(results.warnings) >= 2
    /\ results.warnings[1].type = "P(report)"
    /\ results.warnings[Len(results.warnings)].type = "length"

\* The line was appended to the primary variant: P(reply) is below 50 and the
\* original text has no "?"
ThoughtsAppended == results.predictions["P(reply)"] < 50 /\ ~ includes(text, "?")

\* The entries of the changes list of the primary variant
PrimaryChanges ==
    {out.ret.value[1].changes[i] : i \in 1..Len(out.ret.value[1].changes)}

\* C14: the "Primary Optimized" variant's content is the trimmed text followed
\* by the "Thoughts?" line exactly when P(reply) < 50 and the original text has
\* no "?", and the trimmed text alone otherwise; its changes hold "Added
\* question" exactly when the line was appended, "Added engagement hook"
\* exactly when the content is more than 10 characters longer than the
\* original text, and are the single entry "Structure optimized" exactly when
\* neither holds.
C14_PrimaryOptimizedVariant ==
    (out.op = "generateOptimizedVariants" /\ ~ out.ret.threw) =>
        /\ out.ret.value[1].type = "Primary Optimized"
        /\ out.ret.value[1].content =
              (IF ThoughtsAppended
               THEN trim(text) \o <<"\n","\n","T","h","o","u","g","h","t","s","?">>
               ELSE trim(text))
        /\ "Added question" \in PrimaryChanges <=> ThoughtsAppended
        /\ "Added engagement hook" \in PrimaryChanges
              <=> Len(out.ret.value[1].content) > Len(text) + 10
        /\ out.ret.value[1].changes = <<"Structure optimized">>
              <=> (~ ThoughtsAppended /\ Len(out.ret.value[1].content) <= Len(text) + 10)
        /\ "Structure optimized" \in PrimaryChanges
              => out.ret.value[1].changes = <<"Structure optimized">>

\* C14 witness: the line was appended to a text that trimming shortened, so
\* the question is the only change
C14_Witness ==
    /\ out.op = "generateOptimizedVariants"
    /\ ~ out.ret.threw
    /\ ThoughtsAppended
    /\ Len(trim(text)) < Len(text)
    /\ out.ret.value[1].changes = <<"Added question">>

\* The action occurs among the returned recommendations
Recommended(action) ==
    \E i \in 1..Len(results.recommendations) : results.recommendations[i].action = action

\* C15: P(click) is at most 38 and P(repost) at most 34, the baseline plus
\* every booster weight of the category, so every analysis analyzePost returns
\* recommends "Add a soft call-to-action" and "Add shareable value".
C15_ClickAndRepostBelowForty ==
    AnalyzeReturned =>
        /\ 25 + SumSeq([k \in 1..Len(clickBoosters) |-> clickBoosters[k].weight]) = 38
        /\ 20 + SumSeq([k \in 1..Len(shareBoosters) |-> shareBoosters[k].weight]) = 34
        /\ results.predictions["P(click)"] <= 38
        /\ results.predictions["P(repost)"] <= 34
        /\ Recommended("Add a soft call-to-action")
        /\ Recommended("Add shareable value")

\* C15 witness: every click booster and every share booster matched
C15_Witness ==
    /\ AnalyzeReturned
    /\ results.predictions["P(click)"] = 38
    /\ results.predictions["P(repost)"] = 34
    /\ Recommended("Add a soft call-to-action")
    /\ Recommended("Add shareable value")

=============================================================================
